---- MODULE Spec2Model ----
(***************************************************************************)
(* HyperPerf: the Report Generator (simple_score_generator.py) and the     *)
(* Gate Verifier (verify_score.py), as one state machine.  A behaviour is  *)
(* one run of one of the two programs: `prog` says which, `pc` is the      *)
(* statement the run is at, `fs` is the file system it reads and writes.   *)
(*                                                                         *)
(* Numbers.  A Python float is modelled as an integer count of 1/Scale     *)
(* (fixed point); only finite values are modelled.  Scale is 2000, so that *)
(* inputs given to three decimal places stay exact when multiplied by      *)
(* PENALTY_FACTOR = 1/2.                                                   *)
(*                                                                         *)
(* Python values (JSON documents, None, strings) are tagged records, so    *)
(* that values of different Python types can be told apart.                *)
(***************************************************************************)
EXTENDS Integers, Sequences, FiniteSets, TLC

VARIABLES
    prog,               \* "report" (generate_report) or "gate" (verify_score.py)
    pc,                 \* the statement the run is at
    fs,                 \* file name -> file content
    env,                \* the process environment: variable name -> string
    stdout,             \* the lines printed so far
    exitCode,           \* None until the process ends
    fault,              \* the uncaught exception that ended the run, or None
    \* generate_report's locals
    pr_data, baseline_data, pr_value, baseline_value, final_score,
    score_results, error_message, merge_status_text, merge_status_class,
    html_content,
    \* verify_score.py's module-level names
    score_data, score, commit_sha, repo, token, requests, r,
    producer            \* how the score file came to be (who wrote pqi_score.json)

vars == <<prog, pc, fs, env, stdout, exitCode, fault,
          pr_data, baseline_data, pr_value, baseline_value, final_score,
          score_results, error_message, merge_status_text, merge_status_class,
          html_content,
          score_data, score, commit_sha, repo, token, requests, r, producer>>

reportVars == <<pr_data, baseline_data, pr_value, baseline_value, final_score,
                score_results, error_message, merge_status_text,
                merge_status_class, html_content>>

gateVars == <<score_data, score, commit_sha, repo, token, requests, r>>

----------------------------------------------------------------------------
(* Bounds and units *)

\* Input values are anchors plus a jitter of -MaxJitter..MaxJitter thousandth-pairs.
MaxJitter == 1

\* Units per 1.0 (thousandths, halved).
Scale == 2 * 1000
\* 0.01 in units: the grain of round(x, 2) and of "%.2f".
Cent == Scale \div 100
\* 0.002 in units: the grain of the jitter.
Fine == 4 * (Scale \div 2000)

Max(a, b) == IF a >= b THEN a ELSE b

----------------------------------------------------------------------------
(* Configuration *)

PR_FILE_NAME == "artillery_report.json"
BASELINE_FILE_NAME == "baseline_report.json"
OUTPUT_HTML_NAME == "load_performance_simple_report.html"
TIMER_KEY == "plugins.metrics-by-endpoint.response_time./api/login"
PERCENTILE_KEY == "p90"
\* 0.5, as the rational 1/2
PENALTY_FACTOR == <<1, 2>>
SCORE_THRESHOLD == 95

THRESHOLD == 110
score_file == "pqi_score.json"

\* TIMER_KEY split at its '.' characters: what a dotted-path reading would walk.
TimerKeyParts == <<"plugins", "metrics-by-endpoint", "response_time", "/api/login">>

----------------------------------------------------------------------------
(* Python values *)

None == [t |-> "None"]
PyNum(n) == [t |-> "num", n |-> n]
\* an integer literal too large for a float (such as 1 followed by 400 zeros)
PyBigInt == [t |-> "bigint"]
PyStr(s) == [t |-> "str", s |-> s]
PyBool(b) == [t |-> "bool", b |-> b]
PyList == [t |-> "list"]
PyDict(m) == [t |-> "dict", m |-> m]
EmptyDict == PyDict(<< >>)

\* File contents
Absent == [f |-> "absent"]
Garbage == [f |-> "garbage"]
JsonFile(v) == [f |-> "json", v |-> v]
HtmlFile(h) == [f |-> "html", h |-> h]

\* Exceptions: a type and the message (the pieces of its f-string)
Exc(type, msg) == [type |-> type, msg |-> msg]
Ok(v) == [ok |-> TRUE, v |-> v]
Raised(e) == [ok |-> FALSE, exc |-> e]

----------------------------------------------------------------------------
(* Python primitives used by both programs *)

\* container[key]: a dict yields the value or raises KeyError(key); a value of
\* any other type (None, number, bool, str, list) subscripted by a str raises
\* TypeError.
GetItem(container, key) ==
    IF container.t = "dict"
    THEN IF key \in DOMAIN container.m
         THEN Ok(container.m[key])
         ELSE Raised(Exc("KeyError", <<key>>))
    ELSE Raised(Exc("TypeError", <<"not subscriptable by a str">>))

\* key in container, for the dicts the handlers test.
Contains(container, key) ==
    container.t = "dict" /\ key \in DOMAIN container.m

\* The strings float() accepts, with the float each denotes.
NumericStrings == {"210.0", "115"}
ParseFloat(s) == IF s = "210.0" THEN 210 * Scale ELSE 115 * Scale

\* float(value)
float(value) ==
    CASE value.t = "num" -> Ok(value.n)
      [] value.t = "bool" -> Ok(IF value.b THEN Scale ELSE 0)
      [] value.t = "str" ->
            IF value.s \in NumericStrings
            THEN Ok(ParseFloat(value.s))
            ELSE Raised(Exc("ValueError", <<"could not convert string to float">>))
      [] value.t = "bigint" ->
            Raised(Exc("OverflowError", <<"int too large to convert to float">>))
      [] OTHER -> Raised(Exc("TypeError", <<"float() argument must be a string or a real number">>))

\* round(x, 2): to the nearest hundredth, an exact half to the even hundredth.
round2(x) ==
    LET q == x \div Cent
        m == x % Cent
    IN  IF 2 * m < Cent THEN q * Cent
        ELSE IF 2 * m > Cent THEN (q + 1) * Cent
        ELSE IF q % 2 = 0 THEN q * Cent ELSE (q + 1) * Cent

\* str(e): a KeyError shows the repr of its argument (in double quotes, as the
\* messages hold single quotes), the others the message.
StrOfExc(e) ==
    IF e.type = "KeyError" THEN <<"\"">> \o e.msg \o <<"\"">> ELSE e.msg

\* Python truthiness of a str or None
Truthy(v) == v.t = "str" /\ v.s # << >>

----------------------------------------------------------------------------
(* simple_score_generator.py *)

\* with open(path) as f: json.load(f), against the file system `files`
json_load(files, path) ==
    CASE files[path].f = "absent" -> Raised(Exc("FileNotFoundError", <<path>>))
      [] files[path].f = "json" -> Ok(files[path].v)
      [] OTHER -> Raised(Exc("JSONDecodeError", <<"Expecting value">>))

load_data(files, file_path) ==
    LET got == json_load(files, file_path)
    IN  IF got.ok THEN got
        ELSE IF got.exc.type = "FileNotFoundError"
        THEN Raised(Exc("FileNotFoundError",
                 <<"Error: Required file '", file_path,
                   "' not found. Please ensure both PR and Baseline files are present.">>))
        ELSE Raised(Exc("ValueError",
                 <<"Error: Failed to parse JSON content from '", file_path, "'.">>))

MsgAggregate == <<"Error: The top-level 'aggregate' key is missing in one report.">>
MsgSummaries == <<"Error: The 'summaries' key is missing under 'aggregate' in one report.">>
MsgTimer == <<"Error: The timer key '", TIMER_KEY, "' (for /api/login) is missing under 'summaries'.">>
MsgPercentile == <<"Error: The percentile key '", PERCENTILE_KEY, "' is missing in the timer metrics.">>
MsgInvalid == <<"Error: The extracted p90 value is not a valid number.">>

\* A dotted-path reading of the timer key: walk its parts as nested maps.
RECURSIVE WalkParts(_, _)
WalkParts(container, parts) ==
    IF parts = << >> THEN Ok(container)
    ELSE LET step == GetItem(container, Head(parts))
         IN  IF step.ok THEN WalkParts(step.v, Tail(parts)) ELSE step

TimerLookupDotted(summaries) == WalkParts(summaries, TimerKeyParts)

\* timer_metrics = summaries[TIMER_KEY]
TimerLookup(summaries) == GetItem(summaries, TIMER_KEY)

\* except KeyError: which key is missing
MissingKeyError(data, aggregate, summaries) ==
    IF ~Contains(data, "aggregate")
    THEN Raised(Exc("KeyError", MsgAggregate))
    ELSE IF ~Contains(aggregate.v, "summaries")
    THEN Raised(Exc("KeyError", MsgSummaries))
    ELSE IF ~Contains(summaries.v, TIMER_KEY)
    THEN Raised(Exc("KeyError", MsgTimer))
    ELSE Raised(Exc("KeyError", MsgPercentile))

extract_metric(data) ==
    LET aggregate == GetItem(data, "aggregate")
        summaries == GetItem(aggregate.v, "summaries")
        timer_metrics == TimerLookup(summaries.v)
        value == GetItem(timer_metrics.v, PERCENTILE_KEY)
        body == IF ~aggregate.ok THEN aggregate
                ELSE IF ~summaries.ok THEN summaries
                ELSE IF ~timer_metrics.ok THEN timer_metrics
                ELSE IF ~value.ok THEN value
                ELSE float(value.v)
    IN  IF body.ok THEN body
        ELSE IF body.exc.type = "KeyError"
        THEN MissingKeyError(data, aggregate, summaries)
        ELSE IF body.exc.type \in {"TypeError", "ValueError"}
        THEN Raised(Exc("ValueError", MsgInvalid))
        ELSE body

StatusImprovement == "Pass (Improvement)"
StatusRegression == "Fail (Regression)"

\* x * PENALTY_FACTOR
TimesPenaltyFactor(x) == (x * PENALTY_FACTOR[1]) \div PENALTY_FACTOR[2]

\* The calculator with the tie counted as a regression (a variant).
calculate_simple_score_tie(pr, baseline) ==
    LET regression == pr - baseline
        improved == regression < 0
        penalty == IF improved THEN 0 ELSE TimesPenaltyFactor(regression)
        final == Max(0, 100 * Scale - penalty)
    IN  [score |-> round2(final),
         regression |-> round2(regression),
         status |-> IF improved THEN StatusImprovement ELSE StatusRegression,
         status_class |-> IF improved THEN "good" ELSE "poor",
         penalty |-> round2(penalty),
         penalty_factor |-> PENALTY_FACTOR]

\* The calculator without the branch that zeroes the penalty of an improvement
\* (a variant): a faster PR earns a bonus.
calculate_simple_score_bonus(pr, baseline) ==
    LET regression == pr - baseline
        penalty == TimesPenaltyFactor(regression)
        final == Max(0, 100 * Scale - penalty)
    IN  [score |-> round2(final),
         regression |-> round2(regression),
         status |-> IF regression <= 0 THEN StatusImprovement ELSE StatusRegression,
         status_class |-> IF regression <= 0 THEN "good" ELSE "poor",
         penalty |-> round2(penalty),
         penalty_factor |-> PENALTY_FACTOR]

calculate_simple_score(pr, baseline) ==
    LET regression == pr - baseline
        improved == regression <= 0
        penalty == IF improved THEN 0 ELSE TimesPenaltyFactor(regression)
        final == Max(0, 100 * Scale - penalty)
    IN  [score |-> round2(final),
         regression |-> round2(regression),
         status |-> IF improved THEN StatusImprovement ELSE StatusRegression,
         status_class |-> IF improved THEN "good" ELSE "poor",
         penalty |-> round2(penalty),
         penalty_factor |-> PENALTY_FACTOR]

----------------------------------------------------------------------------
(* Inputs *)

\* p90 values (ms) a report may hold: anchors, each with a jitter of 0.002 ms steps.
P90Anchors == {190, 200, 210, 220, 420}
Jitters == (0 - MaxJitter) .. MaxJitter
P90Values == {a * Scale + j * Fine : a \in P90Anchors, j \in Jitters}

\* {"aggregate": {"summaries": summaries}}
ReportWith(summaries) ==
    PyDict("aggregate" :> PyDict("summaries" :> summaries))
\* The report shape Artillery writes: the dotted timer key as one key of summaries.
AtomicReport(value) ==
    ReportWith(PyDict(TIMER_KEY :> PyDict(PERCENTILE_KEY :> value)))
\* The parts of the timer key nested as successive maps.
NestedReport(value) ==
    ReportWith(PyDict("plugins" :> PyDict("metrics-by-endpoint" :>
        PyDict("response_time" :> PyDict("/api/login" :>
            PyDict(PERCENTILE_KEY :> value))))))

GoodReports == {AtomicReport(PyNum(v)) : v \in P90Values}
OddReports ==
    { PyList, None, PyNum(5 * Scale), EmptyDict,
      PyDict("aggregate" :> EmptyDict),
      PyDict("aggregate" :> PyDict("counters" :> EmptyDict)),
      PyDict("aggregate" :> PyList),
      PyDict("aggregate" :> None),
      ReportWith(EmptyDict),
      ReportWith(PyList),
      ReportWith(PyStr("none")),
      ReportWith(PyDict(TIMER_KEY :> EmptyDict)),
      ReportWith(PyDict(TIMER_KEY :> PyDict("p95" :> PyNum(200 * Scale)))),
      ReportWith(PyDict(TIMER_KEY :> None)),
      ReportWith(PyDict(TIMER_KEY :> PyNum(200 * Scale))),
      NestedReport(PyNum(5 * Scale)),
      AtomicReport(PyStr("fast")),
      AtomicReport(PyStr("210.0")),
      AtomicReport(None),
      AtomicReport(PyList),
      AtomicReport(EmptyDict),
      AtomicReport(PyBool(TRUE)),
      AtomicReport(PyBigInt) }
ReportFiles == {Absent, Garbage} \cup {JsonFile(d) : d \in GoodReports \cup OddReports}

FileNames == {PR_FILE_NAME, BASELINE_FILE_NAME, OUTPUT_HTML_NAME, score_file}

\* Exit codes
Exit(n) == [t |-> "exit", code |-> n]

----------------------------------------------------------------------------
(* generate_report *)

\* except (FileNotFoundError, ValueError, KeyError) as e
CaughtNoKeyError == {"FileNotFoundError", "ValueError"}
CaughtByGenerateReport == {"FileNotFoundError", "ValueError", "KeyError"}

\* An exception raised inside the try block: caught (error_message = str(e)) or,
\* of any other type, uncaught: the traceback ends the process with status 1.
ReportRaise(e) ==
    IF e.type \in CaughtByGenerateReport
    THEN /\ error_message' = PyStr(StrOfExc(e))
         /\ pc' = "merge_status"
         /\ UNCHANGED <<fault, exitCode>>
    ELSE /\ pc' = "crashed"
         /\ fault' = PyStr(e.type)
         /\ exitCode' = Exit(1)
         /\ UNCHANGED error_message

\* pr_data = load_data(PR_FILE_NAME)
LoadPr ==
    /\ prog = "report" /\ pc = "load_pr"
    /\ LET got == load_data(fs, PR_FILE_NAME)
       IN  IF got.ok
           THEN /\ pr_data' = got.v
                /\ pc' = "load_baseline"
                /\ UNCHANGED <<error_message, fault, exitCode>>
           ELSE /\ ReportRaise(got.exc)
                /\ UNCHANGED pr_data
    /\ UNCHANGED <<prog, fs, env, stdout, producer, gateVars, baseline_data,
                   pr_value, baseline_value, final_score, score_results,
                   merge_status_text, merge_status_class, html_content>>

\* baseline_data = load_data(BASELINE_FILE_NAME)
LoadBaseline ==
    /\ prog = "report" /\ pc = "load_baseline"
    /\ LET got == load_data(fs, BASELINE_FILE_NAME)
       IN  IF got.ok
           THEN /\ baseline_data' = got.v
                /\ pc' = "extract_pr"
                /\ UNCHANGED <<error_message, fault, exitCode>>
           ELSE /\ ReportRaise(got.exc)
                /\ UNCHANGED baseline_data
    /\ UNCHANGED <<prog, fs, env, stdout, producer, gateVars, pr_data,
                   pr_value, baseline_value, final_score, score_results,
                   merge_status_text, merge_status_class, html_content>>

\* pr_value = extract_metric(pr_data)
ExtractPr ==
    /\ prog = "report" /\ pc = "extract_pr"
    /\ LET got == extract_metric(pr_data)
       IN  IF got.ok
           THEN /\ pr_value' = got.v
                /\ pc' = "extract_baseline"
                /\ UNCHANGED <<error_message, fault, exitCode>>
           ELSE /\ ReportRaise(got.exc)
                /\ UNCHANGED pr_value
    /\ UNCHANGED <<prog, fs, env, stdout, producer, gateVars, pr_data,
                   baseline_data, baseline_value, final_score, score_results,
                   merge_status_text, merge_status_class, html_content>>

\* baseline_value = extract_metric(baseline_data)
ExtractBaseline ==
    /\ prog = "report" /\ pc = "extract_baseline"
    /\ LET got == extract_metric(baseline_data)
       IN  IF got.ok
           THEN /\ baseline_value' = got.v
                /\ pc' = "calculate"
                /\ UNCHANGED <<error_message, fault, exitCode>>
           ELSE /\ ReportRaise(got.exc)
                /\ UNCHANGED baseline_value
    /\ UNCHANGED <<prog, fs, env, stdout, producer, gateVars, pr_data,
                   baseline_data, pr_value, final_score, score_results,
                   merge_status_text, merge_status_class, html_content>>

\* score_results = calculate_simple_score(...); final_score = score_results["score"]
CalculateScore ==
    /\ prog = "report" /\ pc = "calculate"
    /\ score_results' = calculate_simple_score(pr_value, baseline_value)
    /\ final_score' = score_results'.score
    /\ pc' = "merge_status"
    /\ UNCHANGED <<prog, fs, env, stdout, exitCode, fault, producer, gateVars,
                   pr_data, baseline_data, pr_value, baseline_value,
                   error_message, merge_status_text, merge_status_class,
                   html_content>>

\* final_score <= SCORE_THRESHOLD (a variant)
MergeBlockedAtThreshold(shown) == shown <= SCORE_THRESHOLD * Scale

\* final_score < SCORE_THRESHOLD
MergeBlocked(shown) == shown < SCORE_THRESHOLD * Scale

\* 4. Determine Merge Status
DetermineMergeStatus ==
    /\ prog = "report" /\ pc = "merge_status"
    /\ IF Truthy(error_message)
       THEN /\ merge_status_text' = "ERROR"
            /\ merge_status_class' = "status-poor"
       ELSE /\ merge_status_text' =
                  IF MergeBlocked(final_score) THEN "MERGE BLOCKED" ELSE "MERGE ALLOWED"
            /\ merge_status_class' =
                  IF MergeBlocked(final_score) THEN "poor" ELSE "good"
    /\ pc' = "compile_html"
    /\ UNCHANGED <<prog, fs, env, stdout, exitCode, fault, producer, gateVars,
                   pr_data, baseline_data, pr_value, baseline_value, final_score,
                   score_results, error_message, html_content>>

\* How a value is shown in the document
Fmt2f(x) == [fmt |-> "%.2f", n |-> round2(x)]
Repr(x) == [fmt |-> "repr", n |-> x]
Text(s) == [fmt |-> "text", s |-> s]

\* score_results.get(key, ...)
Has(results, key) == key \in DOMAIN results

\* score_results.get('regression', 0.0) (a variant)
ShownRegressionZero(results) ==
    IF Has(results, "regression") THEN Repr(results.regression) ELSE Repr(0)
\* {score_results.get('regression', 'N/A')}
ShownRegression(results) ==
    IF Has(results, "regression") THEN Repr(results.regression) ELSE Text("N/A")
\* {score_results.get('penalty', 0.0):.2f}
ShownPenalty(results) ==
    IF Has(results, "penalty") THEN Fmt2f(results.penalty) ELSE Fmt2f(0)
\* {score_results.get('status_class', 'poor')}
ShownStatusClass(results) ==
    IF Has(results, "status_class") THEN results.status_class ELSE "poor"

\* 5. Compile HTML: the fields the template interpolates
CompileHtml ==
    /\ prog = "report" /\ pc = "compile_html"
    /\ html_content' =
          [ banner_class |-> merge_status_class,
            banner_text |-> merge_status_text,
            final_score |-> Fmt2f(final_score),
            score_class |-> ShownStatusClass(score_results),
            threshold |-> SCORE_THRESHOLD,
            baseline_value |-> Fmt2f(baseline_value),
            baseline_source |-> BASELINE_FILE_NAME,
            pr_value |-> Fmt2f(pr_value),
            pr_source |-> PR_FILE_NAME,
            regression |-> ShownRegression(score_results),
            penalty |-> ShownPenalty(score_results),
            error_box |-> IF Truthy(error_message) THEN error_message ELSE None ]
    /\ pc' = "save_html"
    /\ UNCHANGED <<prog, fs, env, stdout, exitCode, fault, producer, gateVars,
                   pr_data, baseline_data, pr_value, baseline_value, final_score,
                   score_results, error_message, merge_status_text,
                   merge_status_class>>

\* 6. Save HTML File
SaveHtml ==
    /\ prog = "report" /\ pc = "save_html"
    /\ fs' = [fs EXCEPT ![OUTPUT_HTML_NAME] = HtmlFile(html_content)]
    /\ pc' = "print_summary"
    /\ UNCHANGED <<prog, env, stdout, exitCode, fault, producer, gateVars,
                   reportVars>>

\* The closing prints; generate_report returns and the script ends with status 0.
PrintSummary ==
    /\ prog = "report" /\ pc = "print_summary"
    /\ stdout' = stdout \o
          << [line |-> "Success: Load performance report saved", file |-> OUTPUT_HTML_NAME],
             IF ~Truthy(error_message)
             THEN [line |-> "Final PQI Score", shown |-> Fmt2f(final_score)]
             ELSE [line |-> "Execution Failed", shown |-> error_message] >>
    /\ exitCode' = Exit(0)
    /\ pc' = "done"
    /\ UNCHANGED <<prog, fs, env, fault, producer, gateVars, reportVars>>

----------------------------------------------------------------------------
(* verify_score.py *)

EnvNames == {"TARGET_SHA", "TARGET_REPO", "GH_TOKEN"}
EnvValue(name) ==
    CASE name = "TARGET_SHA" -> "0a1b2c3"
      [] name = "TARGET_REPO" -> "devpranavbk/HyperPerf"
      [] OTHER -> "ghp_token"
Environments == {[n \in set |-> EnvValue(n)] : set \in SUBSET EnvNames}

\* Scores a score file may hold when something other than the calculator wrote it.
GateAnchors == {0, 100, 110, 115}
GateScores == {a * Scale + j * Fine : a \in GateAnchors, j \in Jitters}
ScoreDoc(value) == PyDict("score" :> value)
OddScoreDocs ==
    { PyList, None, EmptyDict, PyDict("pqi" :> PyNum(115 * Scale)),
      ScoreDoc(None), ScoreDoc(PyList), ScoreDoc(PyStr("high")),
      ScoreDoc(PyStr("115")), ScoreDoc(PyBool(TRUE)), ScoreDoc(PyBigInt) }
OtherScoreFiles ==
    {Absent, Garbage} \cup {JsonFile(ScoreDoc(PyNum(v))) : v \in GateScores}
                      \cup {JsonFile(d) : d \in OddScoreDocs}

\* os.getenv with a default in place of None (a variant).
getenvDefaulted(environ, name) ==
    IF name \in DOMAIN environ THEN PyStr(environ[name]) ELSE PyStr("")

\* os.getenv(name): the value, or None when the variable is not set
getenv(environ, name) ==
    IF name \in DOMAIN environ THEN PyStr(environ[name]) ELSE None

\* What an f-string shows for a str or None
Format(v) == IF v.t = "str" THEN v.s ELSE "None"

\* What the network and the status API may answer.  A request that names no
\* repository, no commit or no credential is never answered with a 2xx.
Outcomes(environ) ==
    IF DOMAIN environ = EnvNames
    THEN {"2xx", "non2xx", "ConnectionError"}
    ELSE {"non2xx", "ConnectionError"}

\* requests.post followed by raise_for_status (a variant).
postChecked(outcome) ==
    IF outcome = "2xx" THEN Ok([status |-> outcome])
    ELSE Raised(Exc(IF outcome = "non2xx" THEN "HTTPError" ELSE "ConnectionError",
                    <<outcome>>))

\* requests.post: a response of any status is returned; only a failure to get
\* a response (a network error) raises.
post(outcome) ==
    IF outcome = "ConnectionError"
    THEN Raised(Exc("ConnectionError", <<"Max retries exceeded">>))
    ELSE Ok([status |-> outcome])

\* An exception at module level is uncaught: the traceback ends the process
\* with status 1.
GateRaise(e) ==
    /\ pc' = "crashed"
    /\ fault' = PyStr(e.type)
    /\ exitCode' = Exit(1)

\* with open(score_file) as f: score_data = json.load(f)
ReadScoreFile ==
    /\ prog = "gate" /\ pc = "read_score_file"
    /\ LET got == json_load(fs, score_file)
       IN  IF got.ok
           THEN /\ score_data' = got.v
                /\ pc' = "parse_score"
                /\ UNCHANGED <<fault, exitCode>>
           ELSE /\ GateRaise(got.exc)
                /\ UNCHANGED score_data
    /\ UNCHANGED <<prog, fs, env, stdout, producer, reportVars,
                   score, commit_sha, repo, token, requests, r>>

\* score = float(score_data["score"])
ParseScore ==
    /\ prog = "gate" /\ pc = "parse_score"
    /\ LET item == GetItem(score_data, "score")
           got == IF item.ok THEN float(item.v) ELSE item
       IN  IF got.ok
           THEN /\ score' = got.v
                /\ pc' = "read_env"
                /\ UNCHANGED <<fault, exitCode>>
           ELSE /\ GateRaise(got.exc)
                /\ UNCHANGED score
    /\ UNCHANGED <<prog, fs, env, stdout, producer, reportVars,
                   score_data, commit_sha, repo, token, requests, r>>

\* commit_sha, repo, token = os.getenv(...)
ReadEnv ==
    /\ prog = "gate" /\ pc = "read_env"
    /\ commit_sha' = getenv(env, "TARGET_SHA")
    /\ repo' = getenv(env, "TARGET_REPO")
    /\ token' = getenv(env, "GH_TOKEN")
    /\ pc' = "compare"
    /\ UNCHANGED <<prog, fs, env, stdout, exitCode, fault, producer, reportVars,
                   score_data, score, requests, r>>

\* score <= THRESHOLD (a variant)
BelowOrAtThreshold(x) == x <= THRESHOLD * Scale

\* score < THRESHOLD
BelowThreshold(x) == x < THRESHOLD * Scale

\* if score < THRESHOLD: print(...) else: print(...)
Compare ==
    /\ prog = "gate" /\ pc = "compare"
    /\ IF BelowThreshold(score)
       THEN /\ stdout' = Append(stdout, [line |-> "Performance Failed", score |-> score])
            /\ pc' = "send_failure"
       ELSE /\ stdout' = Append(stdout, [line |-> "Performance Passed", score |-> score])
            /\ pc' = "send_success"
    /\ UNCHANGED <<prog, fs, env, exitCode, fault, producer, reportVars, gateVars>>

\* The POST send_status(state, description) makes
StatusRequest(state, description) ==
    [ url |-> [host |-> "api.github.com", repo |-> Format(repo),
               statuses |-> Format(commit_sha)],
      json |-> [state |-> state, context |-> "performance-check",
                description |-> description],
      headers |-> [Authorization |-> <<"token ", Format(token)>>] ]

\* send_status("failure", ...) or send_status("success", ...)
SendStatus ==
    /\ prog = "gate" /\ pc \in {"send_failure", "send_success"}
    /\ \E outcome \in Outcomes(env) :
          LET state == IF pc = "send_failure" THEN "failure" ELSE "success"
              description ==
                  IF pc = "send_failure"
                  THEN [text |-> "Performance score too low", score |-> score]
                  ELSE [text |-> "Performance score OK", score |-> score]
              got == post(outcome)
          IN  /\ requests' = Append(requests, StatusRequest(state, description))
              /\ IF got.ok
                 THEN /\ r' = got.v
                      /\ stdout' = Append(stdout,
                             [line |-> "GitHub Status Response:", status |-> got.v.status])
                      /\ pc' = IF pc = "send_failure" THEN "exit_1" ELSE "exit_0"
                      /\ UNCHANGED <<fault, exitCode>>
                 ELSE /\ GateRaise(got.exc)
                      /\ UNCHANGED <<r, stdout>>
    /\ UNCHANGED <<prog, fs, env, producer, reportVars,
                   score_data, score, commit_sha, repo, token>>

\* sys.exit(1) or sys.exit(0)
SysExit ==
    /\ prog = "gate" /\ pc \in {"exit_1", "exit_0"}
    /\ exitCode' = Exit(IF pc = "exit_1" THEN 1 ELSE 0)
    /\ pc' = "done"
    /\ UNCHANGED <<prog, fs, env, stdout, fault, producer, reportVars, gateVars>>

----------------------------------------------------------------------------
(* The two programs *)

NoFiles == [n \in FileNames |-> Absent]

InitLocals ==
    /\ stdout = << >>
    /\ exitCode = None
    /\ fault = None
    /\ pr_data = None
    /\ baseline_data = None
    /\ pr_value = 0
    /\ baseline_value = 0
    /\ final_score = 0
    /\ score_results = << >>
    /\ error_message = None
    /\ merge_status_text = "unbound"
    /\ merge_status_class = "unbound"
    /\ html_content = None
    /\ score_data = None
    /\ score = 0
    /\ commit_sha = None
    /\ repo = None
    /\ token = None
    /\ requests = << >>
    /\ r = None

\* python simple_score_generator.py, beside any two report files
InitReport ==
    /\ prog = "report"
    /\ pc = "load_pr"
    /\ \E prFile \in ReportFiles, baselineFile \in ReportFiles :
          fs = [NoFiles EXCEPT ![PR_FILE_NAME] = prFile,
                               ![BASELINE_FILE_NAME] = baselineFile]
    /\ env = << >>
    /\ producer = [by |-> "nobody"]

\* python verify_score.py, beside a score file that the score calculator's
\* result was written to, or any other score file
InitGate ==
    /\ prog = "gate"
    /\ pc = "read_score_file"
    /\ env \in Environments
    /\ \/ \E p \in P90Values, b \in P90Values :
             /\ producer = [by |-> "calculator", pr_value |-> p, baseline_value |-> b]
             /\ fs = [NoFiles EXCEPT ![score_file] =
                        JsonFile(ScoreDoc(PyNum(calculate_simple_score(p, b).score)))]
       \/ /\ producer = [by |-> "other"]
          /\ \E file \in OtherScoreFiles : fs = [NoFiles EXCEPT ![score_file] = file]

Init == InitLocals /\ (InitReport \/ InitGate)

Next ==
    \/ LoadPr
    \/ LoadBaseline
    \/ ExtractPr
    \/ ExtractBaseline
    \/ CalculateScore
    \/ DetermineMergeStatus
    \/ CompileHtml
    \/ SaveHtml
    \/ PrintSummary
    \/ ReadScoreFile
    \/ ParseScore
    \/ ReadEnv
    \/ Compare
    \/ SendStatus
    \/ SysExit

Spec == Init /\ [][Next]_vars

----------------------------------------------------------------------------
(* Gate Verifier: properties *)

GateEnded == prog = "gate" /\ pc \in {"done", "crashed"}
GateCompleted == prog = "gate" /\ pc = "done"

\* The score the score file holds, when it holds one float() can read.
FileScore ==
    LET file == fs[score_file]
        held == file.v.m["score"]
    IN  CASE held.t = "num" -> held.n
          [] held.t = "bool" -> IF held.b THEN Scale ELSE 0
          [] OTHER -> ParseFloat(held.s)

\* The score file gives no score: it is missing, is not JSON, is not an
\* object with a "score" key, or holds a score that is no number and no
\* numeric string.
ScoreUnreadable ==
    LET file == fs[score_file]
    IN  \/ file.f # "json"
        \/ file.v.t # "dict"
        \/ "score" \notin DOMAIN file.v.m
        \/ file.v.m["score"].t \notin {"num", "bool", "str"}
        \/ /\ file.v.m["score"].t = "str"
           /\ file.v.m["score"].s \notin NumericStrings

EnvMissing == DOMAIN env # EnvNames

\* The state of the one notification sent
SentState == requests[1].json.state

(* C1: a run of the gate that completes has sent exactly one status
   notification, and with the score of the score file and threshold 110:
   score >= 110 gives state "success" and exit code 0, score < 110 gives
   state "failure" and exit code 1; no completed run pairs exit code 0 with
   "failure" or exit code 1 with "success". *)
C1_GateVerdictAgrees ==
    GateCompleted =>
        /\ Len(requests) = 1
        /\ score = FileScore
        /\ (FileScore >= 110 * Scale =>
                SentState = "success" /\ exitCode = Exit(0))
        /\ (FileScore < 110 * Scale =>
                SentState = "failure" /\ exitCode = Exit(1))
        /\ ~(exitCode = Exit(0) /\ SentState = "failure")
        /\ ~(exitCode = Exit(1) /\ SentState = "success")

\* A run passes at exactly the threshold.
C1_Witness ==
    /\ GateCompleted
    /\ FileScore = 110 * Scale
    /\ Len(requests) = 1
    /\ SentState = "success"
    /\ exitCode = Exit(0)

(* C10: a score file that holds a score computed by calculate_simple_score
   always takes the gate down the failure path: the pass path (state
   "success", exit code 0) is never entered, the only notification is
   "failure", and the run ends with exit code 1. *)
C10_CalculatorScoreNeverPasses ==
    (prog = "gate" /\ producer.by = "calculator") =>
        /\ pc \notin {"send_success", "exit_0"}
        /\ exitCode # Exit(0)
        /\ \A i \in 1 .. Len(requests) : requests[i].json.state = "failure"
        /\ (pc = "done" =>
                /\ Len(requests) = 1
                /\ exitCode = Exit(1)
                /\ score <= 100 * Scale)
        /\ (pc = "crashed" => Len(requests) = 1)

\* The best score the calculator gives (100) fails the gate.
C10_Witness ==
    /\ GateCompleted
    /\ producer.by = "calculator"
    /\ producer.pr_value <= producer.baseline_value
    /\ score = 100 * Scale
    /\ SentState = "failure"
    /\ exitCode = Exit(1)

\* The one notification was attempted and failed.
NotificationFailed ==
    /\ Len(requests) = 1
    /\ \/ fault = PyStr("ConnectionError")
       \/ (r # None /\ r.status = "non2xx")

(* C7 as stated: a notification failure, a network error or a non-2xx
   response, is not swallowed but aborts the process, so a run whose
   notification failed does not end with the pass exit code 0. *)
C7_NotificationFailureAborts ==
    (GateEnded /\ NotificationFailed) => exitCode # Exit(0)

(* C7 amended: a network error raised by the status request is not
   swallowed: it is the only fault a sent notification can cause, and it
   ends the run with status 1 before sys.exit is reached.  A non-2xx
   response is not a fault: the response is printed and the run ends with
   the exit code the comparison decides, 0 when score >= 110. *)
C7_OnlyNetworkErrorAborts ==
    prog = "gate" =>
        /\ (pc = "crashed" /\ requests # << >>) =>
                /\ fault = PyStr("ConnectionError")
                /\ r = None
                /\ exitCode = Exit(1)
        /\ (r # None /\ r.status = "non2xx") =>
                /\ fault = None
                /\ pc \in {"exit_0", "exit_1", "done"}
                /\ stdout[Len(stdout)].line = "GitHub Status Response:"
                /\ (pc = "done" =>
                        exitCode = Exit(IF score >= 110 * Scale THEN 0 ELSE 1))

\* A passing run whose notification the status API refused.
C7_Witness ==
    /\ GateCompleted
    /\ r # None /\ r.status = "non2xx"
    /\ score >= 110 * Scale
    /\ exitCode = Exit(0)

(* C8 as stated: a malformed or missing score file, or a missing environment
   variable, aborts the run before any notification is sent; no such run
   sends a notification or ends with exit code 0. *)
C8_NoLocalRecovery ==
    (prog = "gate" /\ (ScoreUnreadable \/ EnvMissing)) =>
        /\ requests = << >>
        /\ exitCode # Exit(0)
        /\ pc # "done"

(* C8 amended: a score file that is missing, is not JSON, has no "score"
   key or holds a score float() cannot read is an unhandled fault: the run
   ends with status 1 and sends no notification.  A missing environment
   variable is not a fault: os.getenv gives None, the run goes on, the
   notification is requested with "None" in place of the missing value, and
   the exit code is the one the comparison decides. *)
C8_OnlyScoreFileAborts ==
    prog = "gate" =>
        /\ ScoreUnreadable =>
                /\ requests = << >>
                /\ pc \in {"read_score_file", "parse_score", "crashed"}
                /\ (pc = "crashed" => fault # None /\ exitCode = Exit(1))
                /\ exitCode # Exit(0)
        /\ (pc = "crashed" /\ requests = << >>) => ScoreUnreadable
        /\ pc \notin {"read_score_file", "parse_score", "read_env", "crashed"} =>
                /\ commit_sha = None <=> "TARGET_SHA" \notin DOMAIN env
                /\ repo = None <=> "TARGET_REPO" \notin DOMAIN env
                /\ token = None <=> "GH_TOKEN" \notin DOMAIN env
        /\ \A i \in 1 .. Len(requests) :
                /\ requests[i].url.repo = "None" <=> "TARGET_REPO" \notin DOMAIN env
                /\ requests[i].url.statuses = "None" <=> "TARGET_SHA" \notin DOMAIN env
                /\ requests[i].headers.Authorization[2] = "None"
                        <=> "GH_TOKEN" \notin DOMAIN env
        /\ (pc = "done" /\ EnvMissing) =>
                /\ Len(requests) = 1
                /\ exitCode = Exit(IF score >= 110 * Scale THEN 0 ELSE 1)

\* A run with no environment variable set notifies and passes.
C8_Witness ==
    /\ GateCompleted
    /\ env = << >>
    /\ Len(requests) = 1
    /\ requests[1].url.repo = "None"
    /\ exitCode = Exit(0)

----------------------------------------------------------------------------
(* Report Generator: properties *)

\* The path extract_metric follows
MetricPath == <<"aggregate", "summaries", TIMER_KEY, PERCENTILE_KEY>>

\* The first segment of `path` that cannot be found from `container` ("" when
\* every segment is found): a segment is found in a map that has it as a key.
RECURSIVE FirstMissingFrom(_, _)
FirstMissingFrom(container, path) ==
    IF path = << >> THEN ""
    ELSE IF container.t = "dict" /\ Head(path) \in DOMAIN container.m
    THEN FirstMissingFrom(container.m[Head(path)], Tail(path))
    ELSE Head(path)
FirstMissing(data) == FirstMissingFrom(data, MetricPath)

\* The container in which the first missing segment was looked for
RECURSIVE LastFoundFrom(_, _)
LastFoundFrom(container, path) ==
    IF path = << >> THEN container
    ELSE IF container.t = "dict" /\ Head(path) \in DOMAIN container.m
    THEN LastFoundFrom(container.m[Head(path)], Tail(path))
    ELSE container
LastFound(data) == LastFoundFrom(data, MetricPath)

\* The message that names a segment
MissingMessage(segment) ==
    CASE segment = "aggregate" -> MsgAggregate
      [] segment = "summaries" -> MsgSummaries
      [] segment = TIMER_KEY -> MsgTimer
      [] OTHER -> MsgPercentile
MissingFieldText(segment) == PyStr(<<"\"">> \o MissingMessage(segment) \o <<"\"">>)

\* A located value that is a number, or that float() makes one
Convertible(value) ==
    \/ value.t \in {"num", "bool"}
    \/ value.t = "str" /\ value.s \in NumericStrings

Loaded(name) == fs[name].f = "json"
\* pr_value = extract_metric(pr_data) has been executed
ExtractPrRan ==
    /\ prog = "report"
    /\ Loaded(PR_FILE_NAME) /\ Loaded(BASELINE_FILE_NAME)
    /\ pc \notin {"load_pr", "load_baseline", "extract_pr"}
\* baseline_value = extract_metric(baseline_data) has been executed
ExtractBaselineRan ==
    /\ ExtractPrRan
    /\ FirstMissing(pr_data) = "" /\ Convertible(LastFound(pr_data))
    /\ pc # "extract_baseline"
\* score_results = calculate_simple_score(...) has been executed
CalculateRan == prog = "report" /\ DOMAIN score_results # {}
ErrorOccurred == prog = "report" /\ Truthy(error_message)
\* The document is on disk
Written == prog = "report" /\ pc \in {"print_summary", "done"}
Document == fs[OUTPUT_HTML_NAME].h

(* C2: whatever the two loads and the two extractions do among success,
   FileNotFound, ParseError, MissingField and InvalidValue, the run goes on
   to write the output document and ends with exit status 0: no
   FileNotFoundError, ValueError or KeyError escapes generate_report, and the
   error shows only in the document and in the printed message. *)
C2_ReportAlwaysProduced ==
    prog = "report" =>
        /\ fault \notin {PyStr("FileNotFoundError"), PyStr("ValueError"),
                         PyStr("KeyError"), PyStr("JSONDecodeError"),
                         PyStr("TypeError")}
        /\ (pc = "crashed" =>
                /\ fault = PyStr("OverflowError")
                /\ \/ LastFound(pr_data) = PyBigInt
                   \/ LastFound(baseline_data) = PyBigInt)
        /\ (pc \notin {"done", "crashed"} => ENABLED Next)
        /\ (Written => /\ fs[OUTPUT_HTML_NAME].f = "html"
                       /\ Document = html_content)
        /\ (pc = "done" =>
                /\ exitCode = Exit(0)
                /\ fault = None
                /\ Len(stdout) = 2
                /\ (ErrorOccurred =>
                        /\ Document.error_box = error_message
                        /\ stdout[2] = [line |-> "Execution Failed",
                                        shown |-> error_message]))
        /\ (pc # "done" => exitCode # Exit(0))

\* The PR report is usable and the baseline report lacks the timer key: the
\* run still writes the document and exits 0.
C2_Witness ==
    /\ prog = "report" /\ pc = "done"
    /\ ExtractBaselineRan
    /\ FirstMissing(baseline_data) = TIMER_KEY
    /\ error_message = MissingFieldText(TIMER_KEY)
    /\ fs[OUTPUT_HTML_NAME].f = "html"
    /\ exitCode = Exit(0)

(* C3 as stated: the result of calculate_simple_score satisfies
   regression = pr_value - baseline_value, penalty = max(0, regression) * 0.5,
   score = max(0, 100 - penalty), so 0 <= score <= 100; pr_value <=
   baseline_value gives penalty 0, score 100 and status Improvement;
   pr_value > baseline_value gives status Regression. *)
C3_ScoreIdentities ==
    CalculateRan =>
        /\ score_results.regression = pr_value - baseline_value
        /\ 2 * score_results.penalty = Max(0, score_results.regression)
        /\ score_results.score = Max(0, 100 * Scale - score_results.penalty)
        /\ 0 <= score_results.score /\ score_results.score <= 100 * Scale
        /\ (pr_value <= baseline_value =>
                /\ score_results.penalty = 0
                /\ score_results.score = 100 * Scale
                /\ score_results.status = StatusImprovement)
        /\ (pr_value > baseline_value =>
                score_results.status = StatusRegression)

(* C3 amended: the regression, penalty and score of the result are
   pr_value - baseline_value, max(0, regression) * 0.5 and
   max(0, 100 - penalty), each rounded to 2 decimal places, and equal to
   them when the regression is a whole number of 0.02; 0 <= score <= 100;
   pr_value <= baseline_value gives penalty 0, score 100 and status
   Improvement; pr_value > baseline_value gives status Regression. *)
C3_ScoreIdentitiesRounded ==
    CalculateRan =>
        LET regression == pr_value - baseline_value
            penalty == Max(0, regression) \div 2
        IN  /\ 2 * penalty = Max(0, regression)
            /\ score_results.regression = round2(regression)
            /\ score_results.penalty = round2(penalty)
            /\ score_results.score = round2(Max(0, 100 * Scale - penalty))
            /\ (regression % (2 * Cent) = 0 =>
                    /\ score_results.regression = regression
                    /\ score_results.penalty = penalty
                    /\ score_results.score = Max(0, 100 * Scale - penalty))
            /\ 0 <= score_results.score /\ score_results.score <= 100 * Scale
            /\ (pr_value <= baseline_value =>
                    /\ score_results.penalty = 0
                    /\ score_results.score = 100 * Scale
                    /\ score_results.status = StatusImprovement)
            /\ (pr_value > baseline_value =>
                    score_results.status = StatusRegression)

\* A regression of 0.002 ms: status Regression beside a regression of 0.0,
\* a penalty of 0.0 and a score of 100.0
C3_Witness ==
    /\ CalculateRan
    /\ pr_value - baseline_value = Fine
    /\ score_results.regression = 0
    /\ score_results.penalty = 0
    /\ score_results.score = 100 * Scale
    /\ score_results.status = StatusRegression

(* C4: when a segment of the path (aggregate, summaries, the metric key,
   the percentile key) cannot be found in the document, extraction fails
   with the MissingField error whose message names the first such segment
   in path order. *)
C4_FirstMissingSegmentNamed ==
    /\ (ExtractPrRan /\ FirstMissing(pr_data) # "") =>
            error_message = MissingFieldText(FirstMissing(pr_data))
    /\ (ExtractBaselineRan /\ FirstMissing(baseline_data) # "") =>
            error_message = MissingFieldText(FirstMissing(baseline_data))

\* What the code does on the documents of C4: the first missing segment is
\* named when it was looked for in a map, and the InvalidValue message is
\* given when it was looked for in a value that is no map.
C4_FirstMissingSegmentNamedInMaps ==
    /\ (ExtractPrRan /\ FirstMissing(pr_data) # "") =>
            error_message = IF LastFound(pr_data).t = "dict"
                            THEN MissingFieldText(FirstMissing(pr_data))
                            ELSE PyStr(MsgInvalid)
    /\ (ExtractBaselineRan /\ FirstMissing(baseline_data) # "") =>
            error_message = IF LastFound(baseline_data).t = "dict"
                            THEN MissingFieldText(FirstMissing(baseline_data))
                            ELSE PyStr(MsgInvalid)

\* The summaries map of a document that has one
HasSummaries(data) ==
    /\ FirstMissing(data) \notin {"aggregate", "summaries"}
    /\ data.m["aggregate"].m["summaries"].t = "dict"
SummariesOf(data) == data.m["aggregate"].m["summaries"]

(* C5: the metric key, with its '.' characters, is one key of the summaries
   map.  A document whose summaries map has the dotted string as a key
   resolves to the percentile value stored under it; a document that nests
   the dot-separated parts of the key as successive maps does not resolve:
   extraction fails with the metric key reported missing. *)
C5_TimerKeyIsOneKey ==
    ExtractPrRan =>
        /\ (/\ FirstMissing(pr_data) = ""
            /\ LastFound(pr_data).t = "num") =>
                pr_value = SummariesOf(pr_data).m[TIMER_KEY].m[PERCENTILE_KEY].n
        /\ (/\ HasSummaries(pr_data)
            /\ TIMER_KEY \notin DOMAIN SummariesOf(pr_data).m
            /\ WalkParts(SummariesOf(pr_data), TimerKeyParts).ok) =>
                /\ error_message = MissingFieldText(TIMER_KEY)
                /\ pr_value = 0
                /\ DOMAIN score_results = {}

\* The nested document was extracted from and the timer key reported missing.
C5_Witness ==
    /\ ExtractPrRan
    /\ pr_data = NestedReport(PyNum(5 * Scale))
    /\ error_message = MissingFieldText(TIMER_KEY)
    /\ pr_value = 0

(* C6 as stated: when a load or an extraction failed, the document shows the
   ERROR banner and the error text, and the final score, the regression and
   the penalty each show a placeholder such as "N/A", not a number. *)
C6_ErrorShowsPlaceholders ==
    (Written /\ ErrorOccurred) =>
        /\ Document.banner_text = "ERROR"
        /\ Document.error_box = error_message
        /\ Document.final_score.fmt = "text"
        /\ Document.regression.fmt = "text"
        /\ Document.penalty.fmt = "text"

(* C6 amended: when a load or an extraction failed, the document shows the
   ERROR banner (never MERGE ALLOWED or MERGE BLOCKED) and the error text;
   the regression shows the placeholder "N/A", while the final score and
   the penalty show their initial value as the number 0.00. *)
C6_ErrorShowsBannerAndDefaults ==
    Written =>
        /\ ErrorOccurred =>
                /\ Document.banner_text = "ERROR"
                /\ Document.banner_class = "status-poor"
                /\ Document.error_box = error_message
                /\ Document.regression = Text("N/A")
                /\ Document.final_score = Fmt2f(0)
                /\ Document.penalty = Fmt2f(0)
        /\ ~ErrorOccurred =>
                /\ Document.banner_text \in {"MERGE ALLOWED", "MERGE BLOCKED"}
                /\ Document.error_box = None
                /\ Document.regression.fmt = "repr"
        /\ ErrorOccurred <=>
                (~Loaded(PR_FILE_NAME) \/ ~Loaded(BASELINE_FILE_NAME)
                    \/ DOMAIN score_results = {})

\* The baseline file is missing: ERROR banner, score 0.00, regression N/A.
C6_Witness ==
    /\ Written /\ ErrorOccurred
    /\ fs[BASELINE_FILE_NAME] = Absent
    /\ Document.banner_text = "ERROR"
    /\ Document.final_score = Fmt2f(0)
    /\ Document.regression = Text("N/A")

\* The merge decision has been taken on a computed score
Decided ==
    /\ prog = "report"
    /\ pc \in {"compile_html", "save_html", "print_summary", "done"}
    /\ ~ErrorOccurred
\* max(0, 100 - penalty), not rounded
UnroundedScore ==
    Max(0, 100 * Scale - (Max(0, pr_value - baseline_value) \div 2))

(* C9 as stated: rounding is for display only; the decision is MERGE ALLOWED
   exactly when the unrounded score max(0, 100 - penalty) is >= 95, also for
   scores strictly below 95 that round to 95.00. *)
C9_DecisionOnUnroundedScore ==
    Decided => (merge_status_text = "MERGE ALLOWED" <=> UnroundedScore >= 95 * Scale)

(* C9 amended: the values of the ScoreResult are rounded to 2 decimal
   places, and the merge decision compares the rounded score: it is MERGE
   ALLOWED exactly when max(0, 100 - penalty) rounded to 2 decimal places
   is >= 95, so a score strictly below 95 that rounds to 95.00 is allowed. *)
C9_DecisionOnRoundedScore ==
    Decided =>
        /\ final_score = round2(UnroundedScore)
        /\ merge_status_text \in {"MERGE ALLOWED", "MERGE BLOCKED"}
        /\ merge_status_text = "MERGE ALLOWED" <=> round2(UnroundedScore) >= 95 * Scale
        /\ merge_status_class = "good" <=> merge_status_text = "MERGE ALLOWED"

\* A score of 94.999 is shown as 95.00 and the merge is allowed.
C9_Witness ==
    /\ Decided /\ pc = "done"
    /\ UnroundedScore < 95 * Scale
    /\ final_score = 95 * Scale
    /\ Document.banner_text = "MERGE ALLOWED"

====
